---- MODULE Spec2Model ----
(***************************************************************************)
(* Model of the detection evaluation of src/analysis/evaluate_metrics.py:  *)
(* main() loads the ground truth (one XML annotation per image) and the    *)
(* prediction log (one JSON record per line), evaluate_detections() then   *)
(* matches, per image and per class, the predicted boxes to the ground     *)
(* truth boxes greedily by IoU and accumulates tp / fp / fn per class.     *)
(*                                                                         *)
(* Python values are modelled as follows.  A dict is a function whose      *)
(* DOMAIN is its key set; a list is a sequence; None is the string "None". *)
(* A float that the code obtains by dividing two integers is the pair      *)
(* <<numerator, denominator>> (denominator > 0) and floats are compared by *)
(* cross multiplication.  A relative coordinate of the model output is     *)
(* given in halves: the number k stands for the float k/2.                 *)
(***************************************************************************)
EXTENDS Integers, Sequences, FiniteSets, TLC

\* ------------------------------------------------------------------ bounds

\* Ground-truth objects held by the whole annotation corpus, at most.
MaxObjs == 2

\* Detections held by the whole predictions map, at most (and by one record).
MaxDets == 2

\* The largest pixel coordinate of a box handed to calculate_iou on its own.
MaxCoord == 2

\* The largest tp, fp or fn of a class handed to the report on its own.
MaxCount == 2
\* submit_batch_job.py: the number of consecutive runs of the script, and the
\* number up to which the polls of a run are counted (the count stops there,
\* the polling does not).
MaxRuns == 2
MaxPolls == 2

\* ------------------------------------------------------- program constants

None == "None"

CLASS_MAPPING ==
    [code \in {"D00", "D10", "D20", "D40", "Repair"} |->
        CASE code = "D00" -> "longitudinal_crack"
          [] code = "D10" -> "transverse_crack"
          [] code = "D20" -> "alligator_crack"
          [] code = "D40" -> "pothole"
          [] code = "Repair" -> "repair"]

LABEL_NORMALIZATION ==
    [label \in {"crack", "longitudinal_crack", "transverse_crack",
                "alligator_crack", "pothole", "repair"} |->
        IF label = "crack" THEN None ELSE label]

\* iou_threshold = 0.5, as the float 1/2.
IOU_THRESHOLD == <<1, 2>>

\* The canonical class names: the values of CLASS_MAPPING.
CanonicalClasses == {CLASS_MAPPING[code] : code \in DOMAIN CLASS_MAPPING}

\* ------------------------------------------------------------------ inputs

\* The image ids of the XML files under the raw data directory, in the order
\* rglob lists them, and an id that only the prediction log knows.
xml_files == <<"img_a", "img_b">>

\* The orders rglob may list them in: the order of a directory scan is that of
\* the file system.
Listings ==
    {l \in [1..Len(xml_files) -> {xml_files[i] : i \in 1..Len(xml_files)}] :
        \A i, j \in 1..Len(xml_files) : i # j => l[i] # l[j]}
LogIds == {"img_a", "img_b", "img_z"}

\* Every annotation document states the same image size.
ImgSize == [width |-> 4, height |-> 3]

\* A detection entry of the model output.  entry is the JSON type of the
\* entry itself, "object" or "string".  box_type is the JSON type of box_2d:
\* "numbers" for a list of numbers (the empty list also stands for a missing
\* box_2d: both are falsy), "number" for a nonzero number, "strings" for a list
\* of strings that are no numerals (box_2d then only gives its length).
\* box_2d is [ymin, xmin, ymax, xmax] in halves.
Det(label, box_2d) ==
    [entry |-> "object", label |-> label, box_type |-> "numbers", box_2d |-> box_2d]
DetBoxNumber(label) ==
    [entry |-> "object", label |-> label, box_type |-> "number", box_2d |-> <<>>]
DetBoxStrings(label) ==
    [entry |-> "object", label |-> label, box_type |-> "strings",
     box_2d |-> <<0, 0, 0, 0>>]
DetString ==
    [entry |-> "string", label |-> None, box_type |-> "numbers", box_2d |-> <<>>]

\* The runs are given one of five kinds of data, so that the inputs of a run
\* stay few: each kind has its annotated objects and its detections.
\*   "matching"  two longitudinal cracks side by side; the whole image and its
\*               left half detected as longitudinal crack
\*   "classes"   a longitudinal crack on the left half and a pothole on the
\*               right half; the left half and the whole image detected as
\*               pothole
\*   "labels"    a longitudinal crack and an object of a code CLASS_MAPPING
\*               lacks; the left half under a canonical label, under the
\*               legacy label and under a label the vocabulary lacks
\*   "boxes"     a longitudinal crack; the left half, a box_2d of three
\*               elements and a detection without box_2d
\*   "faults"    a longitudinal crack; an entry that is a string, a box_2d
\*               that is a number and a box_2d of four strings
Datasets == {"matching", "classes", "labels", "boxes", "faults"}

GtObjects(ds) ==
    CASE ds = "matching" ->
            { [class |-> "D00", bbox |-> <<0, 0, 2, 3>>],
              [class |-> "D00", bbox |-> <<2, 0, 4, 3>>] }
      [] ds = "classes" ->
            { [class |-> "D00", bbox |-> <<0, 0, 2, 3>>],
              [class |-> "D40", bbox |-> <<2, 0, 4, 3>>] }
      [] ds = "labels" ->
            { [class |-> "D00", bbox |-> <<0, 0, 2, 3>>],
              [class |-> "D43", bbox |-> <<0, 0, 2, 3>>] }
      [] ds = "boxes" ->
            { [class |-> "D00", bbox |-> <<0, 0, 2, 3>>] }
      [] ds = "faults" ->
            { [class |-> "D00", bbox |-> <<0, 0, 2, 3>>] }

Detections(ds) ==
    CASE ds = "matching" ->
            { Det("longitudinal_crack", <<0, 0, 2, 2>>),
              Det("longitudinal_crack", <<0, 0, 2, 1>>) }
      [] ds = "classes" ->
            { Det("pothole", <<0, 0, 2, 1>>),
              Det("pothole", <<0, 0, 2, 2>>) }
      [] ds = "labels" ->
            { Det("longitudinal_crack", <<0, 0, 2, 1>>),
              Det("crack", <<0, 0, 2, 1>>),
              Det("scratch", <<0, 0, 2, 1>>) }
      [] ds = "boxes" ->
            { Det("longitudinal_crack", <<0, 0, 2, 1>>),
              Det("longitudinal_crack", <<0, 0, 2>>),
              Det("longitudinal_crack", <<>>) }
      [] ds = "faults" ->
            { DetString,
              DetBoxNumber("longitudinal_crack"),
              DetBoxStrings("longitudinal_crack") }

SeqsUpTo(S, n) == UNION {[1..k -> S] : k \in 0..n}

\* What parse_xml_annotation may return for one file: None (parsed is FALSE),
\* or the document with at most n objects.
XmlDocs(ds, n) ==
    {[parsed |-> FALSE, width |-> 0, height |-> 0, objects |-> <<>>]}
    \cup {[parsed |-> TRUE, width |-> ImgSize.width, height |-> ImgSize.height,
            objects |-> objs] : objs \in SeqsUpTo(GtObjects(ds), n)}

\* One line of the result file.  kind tells how far main gets with it:
\*   "bad_json"    json.loads(line) raises
\*   "error"       the record carries an error indicator
\*   "no_response" the record has no "response"
\*   "bad_content" parse_model_content returns None
\*   "ok"          the content parses to {"detections": detections}
DropKinds == {"bad_json", "error", "no_response", "bad_content"}
RecordsFor(ds, id, n) ==
    {[custom_id |-> id, kind |-> "ok", detections |-> dets] :
        dets \in SeqsUpTo(Detections(ds), n)}
    \cup {[custom_id |-> id, kind |-> k, detections |-> <<>>] : k \in DropKinds}
LogRecords(ds) == UNION {RecordsFor(ds, id, MaxDets) : id \in LogIds}

\* The boxes [xmin, ymin, xmax, ymax] of the grid, those of no area and those
\* with xmin > xmax or ymin > ymax included: neither parse_xml_annotation nor
\* convert_relative_to_absolute orders or clamps the coordinates it is given.
Boxes == [1..4 -> 0..MaxCoord]

\* The entries class_stats can hold: the counts of a class, not all of them 0.
Counts == {c \in [tp : 0..MaxCount, fp : 0..MaxCount, fn : 0..MaxCount] :
              c.tp + c.fp + c.fn > 0}

\* The class_stats of at most two classes.
ClassStatsOf(classes) ==
    UNION {[K -> Counts] : K \in SUBSET classes}

\* ----------------------------------------------------------------- helpers

Max(a, b) == IF a >= b THEN a ELSE b
Min(a, b) == IF a <= b THEN a ELSE b

\* Float comparisons on <<numerator, denominator>> pairs.
FracGt(x, y) == x[1] * y[2] > y[1] * x[2]
FracGe(x, y) == x[1] * y[2] >= y[1] * x[2]
FracEq(x, y) == x[1] * y[2] = y[1] * x[2]

RECURSIVE SetToSeq(_)
SetToSeq(S) ==
    IF S = {} THEN <<>>
    ELSE LET x == CHOOSE y \in S : TRUE IN <<x>> \o SetToSeq(S \ {x})

\* CLASS_MAPPING.get(code)
MapGt(code) == IF code \in DOMAIN CLASS_MAPPING THEN CLASS_MAPPING[code] ELSE None

\* Mutant: the union is taken to be the area of box1.
calculate_iou_over_box1(box1, box2) ==
    LET inter_xmin == Max(box1[1], box2[1])
        inter_ymin == Max(box1[2], box2[2])
        inter_xmax == Min(box1[3], box2[3])
        inter_ymax == Min(box1[4], box2[4])
        inter_area == (inter_xmax - inter_xmin) * (inter_ymax - inter_ymin)
        box1_area == (box1[3] - box1[1]) * (box1[4] - box1[2])
    IN  IF inter_xmax < inter_xmin \/ inter_ymax < inter_ymin THEN <<0, 1>>
        ELSE IF box1_area > 0 THEN <<inter_area, box1_area>>
        ELSE <<0, 1>>

\* Mutant: the quotient is taken whatever the union area.
calculate_iou_unguarded(box1, box2) ==
    LET inter_xmin == Max(box1[1], box2[1])
        inter_ymin == Max(box1[2], box2[2])
        inter_xmax == Min(box1[3], box2[3])
        inter_ymax == Min(box1[4], box2[4])
        inter_area == (inter_xmax - inter_xmin) * (inter_ymax - inter_ymin)
        box1_area == (box1[3] - box1[1]) * (box1[4] - box1[2])
        box2_area == (box2[3] - box2[1]) * (box2[4] - box2[2])
    IN  IF inter_xmax < inter_xmin \/ inter_ymax < inter_ymin THEN <<0, 1>>
        ELSE <<inter_area, box1_area + box2_area - inter_area>>

\* Mutant: the intersection is not taken off the sum of the areas.
calculate_iou_sum_of_areas(box1, box2) ==
    LET inter_xmin == Max(box1[1], box2[1])
        inter_ymin == Max(box1[2], box2[2])
        inter_xmax == Min(box1[3], box2[3])
        inter_ymax == Min(box1[4], box2[4])
        inter_area == (inter_xmax - inter_xmin) * (inter_ymax - inter_ymin)
        box1_area == (box1[3] - box1[1]) * (box1[4] - box1[2])
        box2_area == (box2[3] - box2[1]) * (box2[4] - box2[2])
    IN  IF inter_xmax < inter_xmin \/ inter_ymax < inter_ymin THEN <<0, 1>>
        ELSE IF box1_area + box2_area > 0 THEN <<inter_area, box1_area + box2_area>>
        ELSE <<0, 1>>

calculate_iou(box1, box2) ==
    LET x1_min == box1[1]
        y1_min == box1[2]
        x1_max == box1[3]
        y1_max == box1[4]
        x2_min == box2[1]
        y2_min == box2[2]
        x2_max == box2[3]
        y2_max == box2[4]
        inter_xmin == Max(x1_min, x2_min)
        inter_ymin == Max(y1_min, y2_min)
        inter_xmax == Min(x1_max, x2_max)
        inter_ymax == Min(y1_max, y2_max)
        inter_area == (inter_xmax - inter_xmin) * (inter_ymax - inter_ymin)
        box1_area == (x1_max - x1_min) * (y1_max - y1_min)
        box2_area == (x2_max - x2_min) * (y2_max - y2_min)
        union_area == box1_area + box2_area - inter_area
    IN  IF inter_xmax < inter_xmin \/ inter_ymax < inter_ymin THEN <<0, 1>>
        ELSE IF union_area > 0 THEN <<inter_area, union_area>>
        ELSE <<0, 1>>

\* int(rel * extent) for the relative coordinate k/2.
ToPixels(k, extent) == (k * extent) \div 2

convert_relative_to_absolute(box_2d, img_width, img_height) ==
    LET ymin_rel == box_2d[1]
        xmin_rel == box_2d[2]
        ymax_rel == box_2d[3]
        xmax_rel == box_2d[4]
    IN  << ToPixels(xmin_rel, img_width), ToPixels(ymin_rel, img_height),
           ToPixels(xmax_rel, img_width), ToPixels(ymax_rel, img_height) >>

\* ------------------------------------------------- evaluate_detections parts

\* The defaultdict's factory, without 'matched_pairs', which nothing reads.
NewStats == [tp |-> 0, fp |-> 0, fn |-> 0]

\* class_stats[c], which a defaultdict creates on first access.
StatsOf(stats, c) == IF c \in DOMAIN stats THEN stats[c] ELSE NewStats

\* Mutant: the count is kept for the class at hand only, the entries of the
\* classes counted before are lost.
AddStatOfLastClass(stats, c, field, n) ==
    [k \in {c} |-> [StatsOf(stats, c) EXCEPT ![field] = @ + n]]

\* class_stats[c][field] += n
AddStat(stats, c, field, n) ==
    [k \in DOMAIN stats \cup {c} |->
        IF k = c THEN [StatsOf(stats, c) EXCEPT ![field] = @ + n] ELSE stats[k]]

\* Mutant: only the first object of the image is counted.
AddFnForFirstObject(stats, gt_objects) ==
    IF gt_objects = <<>> \/ MapGt(Head(gt_objects).class) = None THEN stats
    ELSE AddStat(stats, MapGt(Head(gt_objects).class), "fn", 1)

\* The branch taken when an image has no prediction: one fn per mapped object.
RECURSIVE AddFnForObjects(_, _)
AddFnForObjects(stats, gt_objects) ==
    IF gt_objects = <<>> THEN stats
    ELSE LET gt_class == MapGt(Head(gt_objects).class)
         IN  AddFnForObjects(
                 IF gt_class # None THEN AddStat(stats, gt_class, "fn", 1) ELSE stats,
                 Tail(gt_objects))

\* The condition of that branch: not pred_data or not pred_data.get('detections').
HasNoPrediction(preds, image_id) ==
    \/ image_id \notin DOMAIN preds
    \/ preds[image_id].detections = <<>>

\* Mutant: the boxes of every mapped object, whatever its class.
RECURSIVE BoxesOfAnyClass(_, _)
BoxesOfAnyClass(gt_objects, c) ==
    IF gt_objects = <<>> THEN <<>>
    ELSE (IF MapGt(Head(gt_objects).class) # None THEN <<Head(gt_objects).bbox>> ELSE <<>>)
         \o BoxesOfAnyClass(Tail(gt_objects), c)

RECURSIVE BoxesOfClass(_, _)
BoxesOfClass(gt_objects, c) ==
    IF gt_objects = <<>> THEN <<>>
    ELSE (IF MapGt(Head(gt_objects).class) = c THEN <<Head(gt_objects).bbox>> ELSE <<>>)
         \o BoxesOfClass(Tail(gt_objects), c)

\* gt_by_class: the boxes of the objects whose code CLASS_MAPPING knows.
GroupGt(gt_objects) ==
    [c \in {MapGt(gt_objects[i].class) : i \in DOMAIN gt_objects} \ {None} |->
        BoxesOfClass(gt_objects, c)]

\* The label after LABEL_NORMALIZATION; a label it lacks is kept as it is.
NormalizedLabel(pred) ==
    IF pred.label \in DOMAIN LABEL_NORMALIZATION
    THEN LABEL_NORMALIZATION[pred.label]
    ELSE pred.label

\* The statement of the grouping loop that raises on the entry: pred.get on an
\* entry that is no object, len() of a box_2d that is a number, int() of a
\* string times the image extent.  No handler catches it, in the function or
\* in main.
Raises(pred) ==
    \/ pred.entry # "object"
    \/ /\ NormalizedLabel(pred) # None
       /\ \/ pred.box_type = "number"
          \/ pred.box_type = "strings" /\ Len(pred.box_2d) = 4

GroupingRaises(pred_detections) ==
    \E j \in DOMAIN pred_detections : Raises(pred_detections[j])

\* The key of pred_by_class a detection is filed under, None when it is skipped.
PredClassOf(pred) ==
    LET pred_class == NormalizedLabel(pred)
    IN  IF pred_class # None /\ pred.box_2d # <<>> /\ Len(pred.box_2d) = 4
        THEN pred_class
        ELSE None

RECURSIVE PredBoxesOfClass(_, _, _, _)
PredBoxesOfClass(pred_detections, c, img_width, img_height) ==
    IF pred_detections = <<>> THEN <<>>
    ELSE (IF PredClassOf(Head(pred_detections)) = c
          THEN <<convert_relative_to_absolute(Head(pred_detections).box_2d,
                                              img_width, img_height)>>
          ELSE <<>>)
         \o PredBoxesOfClass(Tail(pred_detections), c, img_width, img_height)

\* pred_by_class: the absolute boxes of the detections that are kept.
GroupPred(pred_detections, img_width, img_height) ==
    [c \in {PredClassOf(pred_detections[i]) : i \in DOMAIN pred_detections} \ {None} |->
        PredBoxesOfClass(pred_detections, c, img_width, img_height)]

\* d[c] of a defaultdict(list)
ListOf(d, c) == IF c \in DOMAIN d THEN d[c] ELSE <<>>

\* Mutant: claimed boxes are not skipped.
NeverClaimed(gt_idx, matched) == FALSE

\* if gt_idx in matched_gt: continue
IsClaimed(gt_idx, matched) == gt_idx \in matched

\* Mutant: the later of two equally good boxes wins.
BetterOrEqual(iou, best_iou) == FracGe(iou, best_iou)

\* if iou > best_iou
Better(iou, best_iou) == FracGt(iou, best_iou)

\* The inner loop over enumerate(gt_boxes); gt_idx counts from 0 as in the code.
RECURSIVE ScanGt(_, _, _, _, _)
ScanGt(pred_box, gt_boxes, matched, gt_idx, best) ==
    IF gt_idx >= Len(gt_boxes) THEN best
    ELSE IF IsClaimed(gt_idx, matched)
    THEN ScanGt(pred_box, gt_boxes, matched, gt_idx + 1, best)
    ELSE LET iou == calculate_iou(pred_box, gt_boxes[gt_idx + 1])
         IN  IF Better(iou, best.best_iou)
             THEN ScanGt(pred_box, gt_boxes, matched, gt_idx + 1,
                         [best_iou |-> iou, best_gt_idx |-> gt_idx])
             ELSE ScanGt(pred_box, gt_boxes, matched, gt_idx + 1, best)

BestMatch(pred_box, gt_boxes, matched) ==
    ScanGt(pred_box, gt_boxes, matched, 0, [best_iou |-> <<0, 1>>, best_gt_idx |-> -1])

\* best_iou >= iou_threshold and best_gt_idx >= 0
IsMatch(best) == FracGe(best.best_iou, IOU_THRESHOLD) /\ best.best_gt_idx >= 0

\* Mutant: a new claim releases the boxes claimed before.
ClaimGtOnlyLast(matched, best) == IF IsMatch(best) THEN {best.best_gt_idx} ELSE matched

\* matched_gt after a prediction with this best match
ClaimGt(matched, best) == IF IsMatch(best) THEN matched \cup {best.best_gt_idx} ELSE matched

\* Mutant: a prediction that matches nothing is not counted at all.
CountPredTpOnly(stats, c, best) ==
    IF IsMatch(best) THEN AddStat(stats, c, "tp", 1) ELSE stats

\* class_stats after a prediction of class c with this best match: tp or fp
CountPred(stats, c, best) ==
    IF IsMatch(best) THEN AddStat(stats, c, "tp", 1) ELSE AddStat(stats, c, "fp", 1)

\* Mutant: every box of the class is a false negative, claimed or not.
UnmatchedGtCountAll(gt_boxes, matched) == Len(gt_boxes)

\* unmatched_gt_count
UnmatchedGtCount(gt_boxes, matched) == Len(gt_boxes) - Cardinality(matched)

\* ------------------------------------------------------------------- state

VARIABLES
    files,          \* whether the raw data directory and the result file exist,
                    \* and the order the directory lists its XML files in
    dataset,        \* the kind of data the run is given
    pc,             \* where main / evaluate_detections stands
    xml_idx,        \* position in xml_files (from 1)
    ground_truths,  \* image_id -> [width, height, objects]
    gt_order,       \* the keys of ground_truths in insertion order
    predictions,    \* image_id -> [width, height, detections]
    class_stats,    \* class -> [tp, fp, fn]
    img_idx,        \* position in ground_truths.keys() (from 1)
    gt_by_class,    \* class -> boxes, of the image being evaluated
    pred_by_class,  \* class -> boxes, of the image being evaluated
    class_todo,     \* the classes of the image not yet iterated
    class_name,     \* the class being matched
    matched_gt,     \* the claimed ground-truth indices (from 0)
    pred_idx,       \* position in pred_boxes (from 1)
    results,        \* the report
    stats0,         \* history: class_stats when the current class was begun
    last,           \* history: what the last step decided
    call,           \* a function called on its own: its name and arguments
    ret             \* what the call returned

\* The state of src/api/submit_batch_job.py (pc is shared: a behaviour runs one
\* of the two programs).
VARIABLES
    job_env,        \* whether config.yaml holds an API key, whether the input file exists
    job_state_file, \* results/.job_status.json: [exists, valid, dict]
    state,          \* main's state: what load_job_state returned
    job_id,         \* main's job_id
    file_id,        \* main's file_id
    raw_output_file_path,   \* main's raw_output_file_path
    job_status,     \* main's job_status: what the last successful retrieve returned
    remote,         \* the batch service: [files, jobs], jobs: id -> [status, output_file_id]
    results_dir,    \* the result files: name -> [job, complete]
    sys_exit,       \* "running", or how the run ended: "0", "1", "KeyboardInterrupt"
    run             \* history: the number of the run and what it did so far

vars == << files, dataset, pc, xml_idx, ground_truths, gt_order, predictions, class_stats, img_idx,
           gt_by_class, pred_by_class, class_todo, class_name, matched_gt, pred_idx,
           results, stats0, last, call, ret,
           job_env, job_state_file, state, job_id, file_id, raw_output_file_path, job_status,
           remote, results_dir, sys_exit, run >>

unitVars == << call, ret >>
jobVars == << job_env, job_state_file, state, job_id, file_id, raw_output_file_path, job_status,
              remote, results_dir, sys_exit, run >>
loadVars == << files, dataset, xml_idx, ground_truths, gt_order, predictions, unitVars, jobVars >>
imageVars == << gt_by_class, pred_by_class, class_todo >>
classVars == << class_name, matched_gt, pred_idx, stats0 >>

EmptyDict == [k \in {} |-> 0]
NoLast == [op |-> "none"]
NoCall == [fn |-> "none"]
NoRet == [fn |-> "none"]

\* The values of submit_batch_job.py's state: no state file, no job status
\* retrieved yet, a service that knows no file and no job, and the history of a
\* run that has done nothing (the files it uploaded, the jobs it created, the
\* calls of retrieve it made, why it ended, and the job of the run before it
\* with why that run ended).
NoStateFile == [exists |-> FALSE, valid |-> FALSE, dict |-> EmptyDict]
NoJobStatus == [status |-> None, output_file_id |-> None]
NoRemote == [files |-> {}, jobs |-> EmptyDict]
NoPrev == [job_id |-> None, ended |-> None]
NewRun(n) ==
    [n |-> n, uploaded |-> {}, created |-> {}, polls |-> 0, ended |-> None, prev |-> NoPrev]

\* submit_batch_job.py is not run in the behaviours of evaluate_metrics.py.
JobIdle ==
    /\ job_env = [api_key |-> TRUE, input_file |-> TRUE]
    /\ job_state_file = NoStateFile
    /\ state = EmptyDict
    /\ job_id = None
    /\ file_id = None
    /\ raw_output_file_path = None
    /\ job_status = NoJobStatus
    /\ remote = NoRemote
    /\ results_dir = EmptyDict
    /\ sys_exit = "running"
    /\ run = NewRun(0)

\* The number of objects in all of gts, and of detections in all of preds.
RECURSIVE TotalObjs(_)
TotalObjs(gts) ==
    IF DOMAIN gts = {} THEN 0
    ELSE LET k == CHOOSE x \in DOMAIN gts : TRUE
         IN  Len(gts[k].objects) + TotalObjs([j \in DOMAIN gts \ {k} |-> gts[j]])

RECURSIVE TotalDets(_)
TotalDets(preds) ==
    IF DOMAIN preds = {} THEN 0
    ELSE LET k == CHOOSE x \in DOMAIN preds : TRUE
         IN  Len(preds[k].detections) + TotalDets([j \in DOMAIN preds \ {k} |-> preds[j]])

Init ==
    /\ files \in [raw_dir : BOOLEAN, result_file : BOOLEAN, listing : Listings]
    /\ dataset \in Datasets
    /\ pc = "select_result"
    /\ xml_idx = 1
    /\ ground_truths = EmptyDict
    /\ gt_order = <<>>
    /\ predictions = EmptyDict
    /\ class_stats = EmptyDict
    /\ img_idx = 1
    /\ gt_by_class = EmptyDict
    /\ pred_by_class = EmptyDict
    /\ class_todo = {}
    /\ class_name = None
    /\ matched_gt = {}
    /\ pred_idx = 1
    /\ results = EmptyDict
    /\ stats0 = EmptyDict
    /\ last = NoLast
    /\ call = NoCall
    /\ ret = NoRet
    /\ JobIdle

\* ------------------------------------------------------------------- main

\* d[key] = value on a dict
Put(d, key, value) == [k \in DOMAIN d \cup {key} |-> IF k = key THEN value ELSE d[k]]

\* Step 2 of main: the result file is found (the latest one, or the one that is
\* configured), or main prints an error and returns.
SelectResultFile ==
    /\ pc = "select_result"
    /\ pc' = IF files.result_file THEN "load_gt" ELSE "returned"
    /\ UNCHANGED << loadVars, class_stats, img_idx, imageVars, classVars, results, last >>

\* Mutant: every document that parses enters ground_truths.
KeepsParsed(gt_data) == gt_data.parsed

\* if gt_data and gt_data['objects']: only these images enter ground_truths.
KeepsAnnotation(gt_data) == gt_data.parsed /\ gt_data.objects # <<>>

\* list(raw_data_dir.rglob('*.xml')): rglob yields nothing for a directory
\* that does not exist.
XmlFilesFound == IF files.raw_dir THEN files.listing ELSE <<>>

\* One iteration of the loop over xml_files.
LoadXml ==
    /\ pc = "load_gt"
    /\ xml_idx <= Len(XmlFilesFound)
    /\ \E gt_data \in XmlDocs(dataset, MaxObjs - TotalObjs(ground_truths)) :
          LET image_id == XmlFilesFound[xml_idx]
          IN  IF KeepsAnnotation(gt_data)
              THEN /\ ground_truths' =
                          Put(ground_truths, image_id,
                              [width |-> gt_data.width, height |-> gt_data.height,
                               objects |-> gt_data.objects])
                   /\ gt_order' = IF image_id \in DOMAIN ground_truths THEN gt_order
                                  ELSE Append(gt_order, image_id)
              ELSE UNCHANGED << ground_truths, gt_order >>
    /\ xml_idx' = xml_idx + 1
    /\ UNCHANGED << files, dataset, pc, predictions, class_stats, img_idx,
                    imageVars, classVars, results, last, unitVars, jobVars >>

\* The loop over xml_files ends; the result file is read.
OpenResultFile ==
    /\ pc = "load_gt"
    /\ xml_idx > Len(XmlFilesFound)
    /\ pc' = "load_pred"
    /\ UNCHANGED << loadVars, class_stats, img_idx, imageVars, classVars, results, last >>

\* What the body of the loop over the lines does with one record: "dropped"
\* (an exception, an error indicator, no response, no parsable content),
\* "unknown_id" (the image is not in ground_truths) or "stored".
LineEffect(gts, rec) ==
    IF rec.kind # "ok" THEN "dropped"
    ELSE IF rec.custom_id \in DOMAIN gts THEN "stored"
    ELSE "unknown_id"

\* Mutant: a parsed record is stored whether or not its image has ground truth.
LoadRecordAnyId(preds, gts, rec) ==
    IF rec.kind = "ok"
    THEN Put(preds, rec.custom_id,
             [width |-> ImgSize.width, height |-> ImgSize.height,
              detections |-> rec.detections])
    ELSE preds

\* Mutant: the detections of a record are added to those held for its image.
LoadRecordAccumulating(preds, gts, rec) ==
    IF LineEffect(gts, rec) = "stored"
    THEN Put(preds, rec.custom_id,
             [width |-> gts[rec.custom_id].width, height |-> gts[rec.custom_id].height,
              detections |-> (IF rec.custom_id \in DOMAIN preds
                              THEN preds[rec.custom_id].detections ELSE <<>>)
                             \o rec.detections])
    ELSE preds

\* predictions after the body of the loop over the lines has run on one record.
LoadRecord(preds, gts, rec) ==
    IF LineEffect(gts, rec) = "stored"
    THEN Put(preds, rec.custom_id,
             [width |-> gts[rec.custom_id].width, height |-> gts[rec.custom_id].height,
              detections |-> rec.detections])
    ELSE preds

\* History of a line: what the loop body did with the record, whether the
\* predictions map held an entry for its image before, and for a stored record
\* its detections.
LineRead(preds, gts, rec) ==
    IF LineEffect(gts, rec) = "stored"
    THEN [op |-> "line", effect |-> "stored", held |-> rec.custom_id \in DOMAIN preds,
          detections |-> rec.detections]
    ELSE [op |-> "line", effect |-> LineEffect(gts, rec),
          held |-> rec.custom_id \in DOMAIN preds]

\* The detections a record of image id may carry: as many as keep the
\* predictions map within MaxDets, and at most one when the image has no ground
\* truth, where nothing looks at them.
Room(id) ==
    IF id \in DOMAIN ground_truths
    THEN MaxDets - TotalDets([j \in DOMAIN predictions \ {id} |-> predictions[j]])
    ELSE Min(1, MaxDets)

\* One iteration of the loop over the lines of the result file.
LoadLine ==
    /\ pc = "load_pred"
    /\ \E id \in LogIds :
          \E rec \in RecordsFor(dataset, id, Room(id)) :
              /\ predictions' = LoadRecord(predictions, ground_truths, rec)
              /\ last' = LineRead(predictions, ground_truths, rec)
    /\ UNCHANGED << files, dataset, pc, xml_idx, ground_truths, gt_order,
                    class_stats, img_idx, imageVars, classVars, results, unitVars, jobVars >>

\* The last line is read; evaluate_detections is called.
StartEvaluation ==
    /\ pc = "load_pred"
    /\ pc' = "eval_image"
    /\ class_stats' = EmptyDict
    /\ img_idx' = 1
    /\ last' = NoLast
    /\ UNCHANGED << loadVars, imageVars, classVars, results >>

\* ---------------------------------------------------- evaluate_detections

\* The image and the boxes the loops stand at.
CurImage == gt_order[img_idx]
GtBoxes == ListOf(gt_by_class, class_name)
PredBoxes == ListOf(pred_by_class, class_name)

\* The head of the loop over the images, up to the loop over the classes: an
\* image without prediction turns its mapped objects into fn; any other image
\* has its objects and its detections grouped by class, unless an entry makes
\* the grouping raise, which ends the run with a traceback.
StartImage ==
    /\ pc = "eval_image"
    /\ img_idx <= Len(gt_order)
    /\ LET image_id == gt_order[img_idx]
           gt_data == ground_truths[image_id]
       IN  IF HasNoPrediction(predictions, image_id)
           THEN /\ class_stats' = AddFnForObjects(class_stats, gt_data.objects)
                /\ img_idx' = img_idx + 1
                /\ last' = [op |-> "no_prediction", image_id |-> image_id]
                /\ UNCHANGED << pc, imageVars >>
           ELSE IF GroupingRaises(predictions[image_id].detections)
           THEN /\ pc' = "raised"
                /\ last' = [op |-> "raised", image_id |-> image_id]
                /\ UNCHANGED << class_stats, img_idx, imageVars >>
           ELSE LET gt_groups == GroupGt(gt_data.objects)
                    pred_groups == GroupPred(predictions[image_id].detections,
                                             gt_data.width, gt_data.height)
                    classes == DOMAIN gt_groups \cup DOMAIN pred_groups
                IN  /\ gt_by_class' = gt_groups
                    /\ pred_by_class' = pred_groups
                    /\ class_todo' = classes
                    /\ pc' = IF classes = {} THEN "eval_image" ELSE "eval_class"
                    /\ img_idx' = IF classes = {} THEN img_idx + 1 ELSE img_idx
                    /\ last' = [op |-> "grouped", image_id |-> image_id]
                    /\ UNCHANGED class_stats
    /\ UNCHANGED << loadVars, classVars, results >>

\* The head of the loop over the classes of the image: a set, so any order.
StartClass ==
    /\ pc = "eval_class"
    /\ \E c \in class_todo :
          /\ class_name' = c
          /\ class_todo' = class_todo \ {c}
    /\ matched_gt' = {}
    /\ pred_idx' = 1
    /\ stats0' = class_stats
    /\ pc' = "match"
    /\ last' = NoLast
    /\ UNCHANGED << loadVars, class_stats, img_idx, gt_by_class, pred_by_class, results >>

\* One iteration of the loop over pred_boxes.
MatchPred ==
    /\ pc = "match"
    /\ pred_idx <= Len(PredBoxes)
    /\ LET pred_box == PredBoxes[pred_idx]
           best == BestMatch(pred_box, GtBoxes, matched_gt)
       IN  /\ class_stats' = CountPred(class_stats, class_name, best)
           /\ matched_gt' = ClaimGt(matched_gt, best)
           /\ last' = [op |-> "match", image_id |-> CurImage, class_name |-> class_name,
                       pred_box |-> pred_box, best_iou |-> best.best_iou,
                       best_gt_idx |-> best.best_gt_idx]
    /\ pred_idx' = pred_idx + 1
    /\ UNCHANGED << pc, loadVars, img_idx, imageVars, class_name, stats0, results >>

\* The loop over pred_boxes ends: the unclaimed boxes are fn; next class or image.
EndClass ==
    /\ pc = "match"
    /\ pred_idx > Len(PredBoxes)
    /\ class_stats' = AddStat(class_stats, class_name, "fn",
                              UnmatchedGtCount(GtBoxes, matched_gt))
    /\ pc' = IF class_todo = {} THEN "eval_image" ELSE "eval_class"
    /\ img_idx' = IF class_todo = {} THEN img_idx + 1 ELSE img_idx
    /\ last' = [op |-> "end_class", image_id |-> CurImage, class_name |-> class_name]
    /\ UNCHANGED << loadVars, imageVars, classVars, results >>

FracAdd(x, y) == << x[1] * y[2] + y[1] * x[2], x[2] * y[2] >>

RECURSIVE FracSum(_)
FracSum(s) == IF s = <<>> THEN <<0, 1>> ELSE FracAdd(Head(s), FracSum(Tail(s)))

\* Mutant: the quotients are taken whatever their denominators.
ClassMetricsUnguarded(stats) ==
    [tp |-> stats.tp, fp |-> stats.fp, fn |-> stats.fn,
     precision |-> <<stats.tp, stats.tp + stats.fp>>,
     recall |-> <<stats.tp, stats.tp + stats.fn>>,
     f1 |-> << 2 * stats.tp * stats.tp,
               stats.tp * (stats.tp + stats.fn) + stats.tp * (stats.tp + stats.fp) >>]

\* The metrics of one class.
ClassMetrics(stats) ==
    LET tp == stats.tp
        fp == stats.fp
        fn == stats.fn
        precision == IF tp + fp > 0 THEN <<tp, tp + fp>> ELSE <<0, 1>>
        recall == IF tp + fn > 0 THEN <<tp, tp + fn>> ELSE <<0, 1>>
        sum == FracAdd(precision, recall)
        f1 == IF sum[1] > 0
              THEN << 2 * precision[1] * recall[1], sum[1] >>
              ELSE <<0, 1>>
    IN  [tp |-> tp, fp |-> fp, fn |-> fn,
         precision |-> precision, recall |-> recall, f1 |-> f1]

\* Mutant: the mean is taken over all canonical classes, the absent ones as 0.
MacroOverCanonical(per_class, field) ==
    LET keys == SetToSeq(DOMAIN per_class)
        total == FracSum([i \in 1..Len(keys) |-> per_class[keys[i]][field]])
    IN  << total[1], total[2] * Cardinality(CanonicalClasses) >>

\* sum(r[field] for r in results.values()) / len(results)
MacroOf(per_class, field) ==
    LET keys == SetToSeq(DOMAIN per_class)
        total == FracSum([i \in 1..Len(keys) |-> per_class[keys[i]][field]])
    IN  << total[1], total[2] * Len(keys) >>

\* Mutant: the macro average entry carries the summed counts as well.
ReportWithMacroCounts(stats) ==
    LET per_class == [c \in DOMAIN stats |-> ClassMetrics(stats[c])]
    IN  IF DOMAIN per_class = {} THEN per_class
        ELSE [k \in DOMAIN per_class \cup {"macro_average"} |->
                IF k = "macro_average"
                THEN [tp |-> 0, fp |-> 0, fn |-> 0,
                      precision |-> MacroOf(per_class, "precision"),
                      recall |-> MacroOf(per_class, "recall"),
                      f1 |-> MacroOf(per_class, "f1")]
                ELSE per_class[k]]

\* The report: the metrics of every class of class_stats, and their macro average.
Report(stats) ==
    LET per_class == [c \in DOMAIN stats |-> ClassMetrics(stats[c])]
    IN  IF DOMAIN per_class = {} THEN per_class
        ELSE [k \in DOMAIN per_class \cup {"macro_average"} |->
                IF k = "macro_average"
                THEN [precision |-> MacroOf(per_class, "precision"),
                      recall |-> MacroOf(per_class, "recall"),
                      f1 |-> MacroOf(per_class, "f1")]
                ELSE per_class[k]]

\* The loop over the images ends; the report is computed and returned.
Finish ==
    /\ pc = "eval_image"
    /\ img_idx > Len(gt_order)
    /\ results' = Report(class_stats)
    /\ pc' = "done"
    /\ last' = NoLast
    /\ UNCHANGED << loadVars, class_stats, img_idx, imageVars, classVars >>

Next ==
    \/ SelectResultFile
    \/ LoadXml
    \/ OpenResultFile
    \/ LoadLine
    \/ StartEvaluation
    \/ StartImage
    \/ StartClass
    \/ MatchPred
    \/ EndClass
    \/ Finish

Spec == Init /\ [][Next]_vars

\* The process has ended, and its exit status: main returns (after the error
\* message of step 2, or at its end) and the interpreter exits with 0; an
\* exception nothing catches ends it with a traceback and 1.
Terminated == pc \in {"returned", "done", "raised"}
ExitStatus == IF pc = "raised" THEN 1 ELSE 0

\* ------------------------------------------------- functions on their own

\* calculate_iou on two boxes of the grid, and the last part of
\* evaluate_detections (the metrics of the classes and their macro average)
\* on a class_stats of its own.
Calls ==
    {[fn |-> "calculate_iou", box1 |-> b1, box2 |-> b2] : b1, b2 \in Boxes}
    \cup {[fn |-> "report", class_stats |-> cs] :
            cs \in ClassStatsOf({"longitudinal_crack", "pothole"})}

InitUnit ==
    /\ files = [raw_dir |-> TRUE, result_file |-> TRUE, listing |-> xml_files]
    /\ dataset = "matching"
    /\ pc = "unit_call"
    /\ xml_idx = 1
    /\ ground_truths = EmptyDict
    /\ gt_order = <<>>
    /\ predictions = EmptyDict
    /\ class_stats = EmptyDict
    /\ img_idx = 1
    /\ gt_by_class = EmptyDict
    /\ pred_by_class = EmptyDict
    /\ class_todo = {}
    /\ class_name = None
    /\ matched_gt = {}
    /\ pred_idx = 1
    /\ results = EmptyDict
    /\ stats0 = EmptyDict
    /\ last = NoLast
    /\ call \in Calls
    /\ ret = NoRet
    /\ JobIdle

mainVars == << files, dataset, xml_idx, ground_truths, gt_order, predictions, class_stats,
               img_idx, imageVars, classVars, results, last >>

\* calculate_iou(box1, box2), the same call with the boxes swapped, and the
\* inner loop of the matching for box1 as the prediction and box2 as the only
\* ground-truth box of its class.
CallIou ==
    /\ pc = "unit_call"
    /\ call.fn = "calculate_iou"
    /\ ret' = [fn |-> "calculate_iou",
               iou |-> calculate_iou(call.box1, call.box2),
               swapped |-> calculate_iou(call.box2, call.box1),
               best |-> BestMatch(call.box1, <<call.box2>>, {})]
    /\ pc' = "unit_returned"
    /\ UNCHANGED << mainVars, call, jobVars >>

CallReport ==
    /\ pc = "unit_call"
    /\ call.fn = "report"
    /\ ret' = [fn |-> "report", results |-> Report(call.class_stats)]
    /\ pc' = "unit_returned"
    /\ UNCHANGED << mainVars, call, jobVars >>

NextUnit ==
    \/ CallIou
    \/ CallReport

SpecUnit == InitUnit /\ [][NextUnit]_vars

\* =================================================== submit_batch_job.py
\* A run of main(): resume the cached job or upload the input and create a new
\* one, poll the job until it ends, download the result, clean the cache.  The
\* script is run up to MaxRuns times, one run after the other; the state file,
\* the result files and the batch service outlive a run.  A file or job id is
\* a string, and so is a file name; the time stamp of a run is its number.

\* The statuses a job of the service reports, and how a job moves on.  A job
\* that reports 'completed' may have no output file.
JobStatuses == {"validating", "in_progress", "completed", "failed", "cancelled", "expired"}
NextStatuses(status) ==
    CASE status = "validating" -> {"in_progress", "failed", "cancelled"}
      [] status = "in_progress" -> {"completed", "failed", "cancelled", "expired"}
      [] OTHER -> {}
OutputOf(id) == "output_of_" \o id
JobReports(id) ==
    {[status |-> s, output_file_id |-> None] : s \in JobStatuses} \cup
    {[status |-> "completed", output_file_id |-> OutputOf(id)]}

\* new_state
new_state(job, file, path) ==
    [job_id |-> job, file_id |-> file, status |-> "created",
     input_file |-> "batch_tasks_input.jsonl", output_filename |-> path]

\* load_job_state
load_job_state(f) == IF f.exists /\ f.valid THEN f.dict ELSE EmptyDict

\* save_job_state
save_job_state(st) == [exists |-> TRUE, valid |-> TRUE, dict |-> st]

\* job_state_file.unlink()
Unlink(f) == NoStateFile

\* The state files a run may find: none, one that is not JSON, an empty dict,
\* what an earlier run saved for job_0, and that with a key missing.
StateFiles ==
    LET saved == new_state("job_0", "file_0", "api_raw_results_0")
        keys == DOMAIN saved
    IN  {NoStateFile, [exists |-> TRUE, valid |-> FALSE, dict |-> EmptyDict]} \cup
        {save_job_state([k \in ks |-> saved[k]]) :
            ks \in {{}, keys, keys \ {"output_filename"}, keys \ {"job_id"}}}

\* What the service knows when the first run begins: nothing, or job_0 if the
\* state file names it.
Remotes(f) ==
    {NoRemote} \cup
    IF "job_id" \in DOMAIN f.dict
    THEN {[files |-> {"file_0"}, jobs |-> [j \in {"job_0"} |-> r]] : r \in JobReports("job_0")}
    ELSE {}

\* The values of evaluate_metrics.py's state: it is not run in these behaviours.
EvalIdle ==
    /\ files = [raw_dir |-> TRUE, result_file |-> TRUE, listing |-> xml_files]
    /\ dataset = "matching"
    /\ xml_idx = 1
    /\ ground_truths = EmptyDict
    /\ gt_order = <<>>
    /\ predictions = EmptyDict
    /\ class_stats = EmptyDict
    /\ img_idx = 1
    /\ gt_by_class = EmptyDict
    /\ pred_by_class = EmptyDict
    /\ class_todo = {}
    /\ class_name = None
    /\ matched_gt = {}
    /\ pred_idx = 1
    /\ results = EmptyDict
    /\ stats0 = EmptyDict
    /\ last = NoLast
    /\ call = NoCall
    /\ ret = NoRet

evalVars == << mainVars, unitVars >>

InitJob ==
    /\ EvalIdle
    /\ pc = "job_start"
    /\ job_env \in [api_key : BOOLEAN, input_file : BOOLEAN]
    /\ job_state_file \in StateFiles
    /\ state = EmptyDict
    /\ job_id = None
    /\ file_id = None
    /\ raw_output_file_path = None
    /\ job_status = NoJobStatus
    /\ remote \in Remotes(job_state_file)
    /\ results_dir = EmptyDict
    /\ sys_exit = "running"
    /\ run = NewRun(1)

\* sys.exit(code), or the end of main: the run is over.
Exit(code, why, r) ==
    /\ pc' = "exited"
    /\ sys_exit' = code
    /\ run' = [r EXCEPT !.ended = why]

\* One more poll in the history of the run.
Polled(r) == [r EXCEPT !.polls = Min(r.polls + 1, MaxPolls)]

\* Step 3: the job id and the output path taken from the cached state, and
\* whether the cache is found corrupted.
Step3(st) ==
    IF "job_id" \in DOMAIN st
    THEN IF "output_filename" \notin DOMAIN st
         THEN [job_id |-> st.job_id, raw_output_file_path |-> None, corrupted |-> TRUE]
         ELSE [job_id |-> st.job_id, raw_output_file_path |-> st.output_filename,
               corrupted |-> FALSE]
    ELSE [job_id |-> None, raw_output_file_path |-> None, corrupted |-> FALSE]

\* if job_id is None
CreatesNewJobAlways(id) == TRUE
CreatesNewJob(id) == id = None

\* results_dir / f"api_raw_results_{timestamp}.jsonl"
TimestampedPath(timestamp) == "api_raw_results_" \o ToString(timestamp)

\* Steps 1 to 4 up to the upload: the API key check, the resume logic and the
\* choice between the cached job and a new one.
Resume ==
    /\ pc = "job_start"
    /\ IF ~job_env.api_key
       THEN /\ Exit("1", "no_api_key", run)
            /\ UNCHANGED << job_state_file, state, job_id, raw_output_file_path >>
       ELSE LET st == load_job_state(job_state_file)
                s3 == Step3(st)
            IN  /\ state' = st
                /\ job_id' = s3.job_id
                /\ IF s3.corrupted
                   THEN /\ job_state_file' = Unlink(job_state_file)
                        /\ raw_output_file_path' = s3.raw_output_file_path
                        /\ Exit("1", "corrupted_cache", run)
                   ELSE /\ UNCHANGED job_state_file
                        /\ IF CreatesNewJob(s3.job_id)
                           THEN /\ raw_output_file_path' = TimestampedPath(run.n)
                                /\ IF ~job_env.input_file
                                   THEN Exit("1", "no_input", run)
                                   ELSE /\ pc' = "upload"
                                        /\ UNCHANGED << sys_exit, run >>
                           ELSE /\ raw_output_file_path' = s3.raw_output_file_path
                                /\ pc' = "poll"
                                /\ UNCHANGED << sys_exit, run >>
    /\ UNCHANGED << evalVars, job_env, file_id, job_status, remote, results_dir >>

\* except Exception (step 4): the upload, the creation or the save raised.
CreateFailed(r) == Exit("1", "create_failed", r)

\* Step 4a: client.files.create.
Upload ==
    /\ pc = "upload"
    /\ \/ LET id == "file_" \o ToString(Cardinality(remote.files) + 1)
          IN  /\ file_id' = id
              /\ remote' = [remote EXCEPT !.files = @ \cup {id}]
              /\ run' = [run EXCEPT !.uploaded = @ \cup {id}]
              /\ pc' = "create"
              /\ UNCHANGED sys_exit
       \/ /\ CreateFailed(run)
          /\ UNCHANGED << file_id, remote >>
    /\ UNCHANGED << evalVars, job_env, job_state_file, state, job_id, raw_output_file_path,
                    job_status, results_dir >>

\* Step 4b: client.batches.create.
Create ==
    /\ pc = "create"
    /\ \/ LET id == "job_" \o ToString(Cardinality(DOMAIN remote.jobs) + 1)
          IN  /\ job_id' = id
              /\ remote' = [remote EXCEPT !.jobs =
                     [j \in DOMAIN @ \cup {id} |->
                         IF j = id THEN [status |-> "validating", output_file_id |-> None]
                         ELSE @[j]]]
              /\ run' = [run EXCEPT !.created = @ \cup {id}]
              /\ pc' = "save"
              /\ UNCHANGED sys_exit
       \/ /\ CreateFailed(run)
          /\ UNCHANGED << job_id, remote >>
    /\ UNCHANGED << evalVars, job_env, job_state_file, state, file_id, raw_output_file_path,
                    job_status, results_dir >>

\* Step 4c: save_job_state(job_state_file, new_state).  A save that raises
\* leaves the file as it was (the open failed) or cut short (the dump failed).
Save ==
    /\ pc = "save"
    /\ \/ /\ job_state_file' =
                 save_job_state(new_state(job_id, file_id, raw_output_file_path))
          /\ pc' = "poll"
          /\ UNCHANGED << sys_exit, run >>
       \/ /\ job_state_file' \in
                 {job_state_file, [exists |-> TRUE, valid |-> FALSE, dict |-> EmptyDict]}
          /\ CreateFailed(run)
    /\ UNCHANGED << evalVars, job_env, state, job_id, file_id, raw_output_file_path,
                    job_status, remote, results_dir >>

\* if status == 'completed': break
LeavesLoopWhenOver(status) == status \in {"completed", "expired"}
LeavesLoop(status) == status = "completed"

\* elif status in ['failed', 'cancelled']
JobFailed(status) == status \in {"failed", "cancelled"}

\* Step 5, a pass of the loop whose retrieve returns: the status is looked at.
Poll ==
    /\ pc = "poll"
    /\ job_id \in DOMAIN remote.jobs
    /\ job_status' = remote.jobs[job_id]
    /\ IF LeavesLoop(job_status'.status)
       THEN /\ pc' = "download"
            /\ run' = Polled(run)
            /\ UNCHANGED << job_state_file, sys_exit >>
       ELSE IF JobFailed(job_status'.status)
       THEN /\ job_state_file' = IF job_state_file.exists THEN Unlink(job_state_file)
                                 ELSE job_state_file
            /\ Exit("1", "job_failed", Polled(run))
       ELSE /\ pc' = "poll"
            /\ run' = Polled(run)
            /\ UNCHANGED << job_state_file, sys_exit >>
    /\ UNCHANGED << evalVars, job_env, state, job_id, file_id, raw_output_file_path,
                    remote, results_dir >>

\* Step 5, a pass of the loop whose retrieve raises: except Exception, the
\* script is about to sleep 60 seconds.
PollError ==
    /\ pc = "poll"
    /\ pc' = "backoff"
    /\ run' = Polled(run)
    /\ UNCHANGED << evalVars, job_env, job_state_file, state, job_id, file_id,
                    raw_output_file_path, job_status, remote, results_dir, sys_exit >>

\* The sleep of 60 seconds is over: the loop goes round.
Retry ==
    /\ pc = "backoff"
    /\ pc' = "poll"
    /\ UNCHANGED << evalVars, jobVars >>

\* except KeyboardInterrupt: Ctrl+C inside the try of the loop.
KeyboardInterruptUnlinking ==
    /\ pc = "poll"
    /\ job_state_file' = Unlink(job_state_file)
    /\ Exit("0", "interrupt", run)
    /\ UNCHANGED << evalVars, job_env, state, job_id, file_id,
                    raw_output_file_path, job_status, remote, results_dir >>

KeyboardInterrupt ==
    /\ pc = "poll"
    /\ Exit("0", "interrupt", run)
    /\ UNCHANGED << evalVars, job_env, job_state_file, state, job_id, file_id,
                    raw_output_file_path, job_status, remote, results_dir >>

\* Ctrl+C anywhere else (no handler: the run ends with a traceback).
Traceback ==
    /\ pc \in {"upload", "create", "save", "backoff", "download", "cleanup"}
    /\ Exit("KeyboardInterrupt", IF pc = "backoff" THEN "interrupt" ELSE "traceback", run)
    /\ UNCHANGED << evalVars, job_env, job_state_file, state, job_id, file_id,
                    raw_output_file_path, job_status, remote, results_dir >>

\* except Exception (step 6): the download raised.
DownloadFailed(r) == Exit("1", "download_failed", r)

\* Step 6: the result is downloaded and written to raw_output_file_path.  The
\* download raises when the job has no output file, when the content cannot be
\* fetched, or when the file cannot be written (it may then be cut short).
Download ==
    /\ pc = "download"
    /\ LET output_file_id == job_status.output_file_id
           Written(complete) ==
               [f \in DOMAIN results_dir \cup {raw_output_file_path} |->
                   IF f = raw_output_file_path
                   THEN [content |-> output_file_id, complete |-> complete]
                   ELSE results_dir[f]]
       IN  IF output_file_id = None
           THEN /\ DownloadFailed(run)
                /\ UNCHANGED results_dir
           ELSE \/ /\ DownloadFailed(run)
                   /\ UNCHANGED results_dir
                \/ /\ DownloadFailed(run)
                   /\ results_dir' = Written(FALSE)
                \/ /\ results_dir' = Written(TRUE)
                   /\ pc' = "cleanup"
                   /\ UNCHANGED << sys_exit, run >>
    /\ UNCHANGED << evalVars, job_env, job_state_file, state, job_id, file_id,
                    raw_output_file_path, job_status, remote >>

\* Step 7: the cache is cleaned and main returns.
Cleanup ==
    /\ pc = "cleanup"
    /\ job_state_file' = IF job_state_file.exists THEN Unlink(job_state_file)
                         ELSE job_state_file
    /\ Exit("0", "finished", run)
    /\ UNCHANGED << evalVars, job_env, state, job_id, file_id, raw_output_file_path,
                    job_status, remote, results_dir >>

\* The script is run again.
NextRun ==
    /\ pc = "exited"
    /\ run.n < MaxRuns
    /\ pc' = "job_start"
    /\ state' = EmptyDict
    /\ job_id' = None
    /\ file_id' = None
    /\ raw_output_file_path' = None
    /\ job_status' = NoJobStatus
    /\ sys_exit' = "running"
    /\ run' = [NewRun(run.n + 1) EXCEPT !.prev = [job_id |-> job_id, ended |-> run.ended]]
    /\ UNCHANGED << evalVars, job_env, job_state_file, remote, results_dir >>

\* The jobs that the script can still ask the service about: the job of the
\* run and the job that the state file names.
Followed ==
    {job_id} \cup
    IF "job_id" \in DOMAIN job_state_file.dict THEN {job_state_file.dict.job_id} ELSE {}

\* The service: a job moves on (a job that is not followed moves on unseen).
RemoteStep ==
    /\ \E j \in DOMAIN remote.jobs \cap Followed :
         \E r \in JobReports(j) :
            /\ r.status \in NextStatuses(remote.jobs[j].status)
            /\ remote' = [remote EXCEPT !.jobs[j] = r]
    /\ UNCHANGED << evalVars, pc, job_env, job_state_file, state, job_id, file_id,
                    raw_output_file_path, job_status, results_dir, sys_exit, run >>

NextJob ==
    \/ Resume
    \/ Upload
    \/ Create
    \/ Save
    \/ Poll
    \/ PollError
    \/ Retry
    \/ KeyboardInterrupt
    \/ Traceback
    \/ Download
    \/ Cleanup
    \/ NextRun
    \/ RemoteStep

SpecJob == InitJob /\ [][NextJob]_vars

\* The polling is fair: the script does not sleep for ever, and the retrieve
\* does not raise for ever.
SpecJobFair == SpecJob /\ WF_vars(Retry) /\ SF_vars(Poll)

\* ------------------------------------------------------------ properties

Tp(c) == StatsOf(class_stats, c).tp
Fp(c) == StatsOf(class_stats, c).fp
Fn(c) == StatsOf(class_stats, c).fn

\* The same counts when the class being matched was begun.
Tp0(c) == StatsOf(stats0, c).tp
Fp0(c) == StatsOf(stats0, c).fp
Fn0(c) == StatsOf(stats0, c).fn

\* The images the loop over ground_truths.keys() has left behind.
EvaluatedImages == {gt_order[i] : i \in 1..(img_idx - 1)}

\* The ground-truth objects of class c in the images imgs, as (image, position).
GtOfClass(imgs, c) ==
    UNION { { <<i, k>> : k \in {j \in DOMAIN ground_truths[i].objects :
                  /\ ground_truths[i].objects[j].class \in DOMAIN CLASS_MAPPING
                  /\ CLASS_MAPPING[ground_truths[i].objects[j].class] = c} }
            : i \in imgs }

\* The resolved predictions of class c in the images imgs, as (image, position):
\* the label maps to c and the box has four elements.
ResolvedOfClass(imgs, c) ==
    UNION { { <<i, k>> : k \in {j \in DOMAIN predictions[i].detections :
                  /\ predictions[i].detections[j].label \in DOMAIN LABEL_NORMALIZATION
                  /\ LABEL_NORMALIZATION[predictions[i].detections[j].label] = c
                  /\ Len(predictions[i].detections[j].box_2d) = 4} }
            : i \in imgs \cap DOMAIN predictions }

\* C1: conservation of ground truth.  After every image, and so when
\* evaluate_detections returns, tp + fn of every canonical class is the number
\* of ground-truth objects of that class in the images evaluated, with or
\* without a prediction record; at the end these are all images of the corpus.
C1_GtConservation ==
    /\ pc \in {"eval_image", "done"} =>
          \A c \in CanonicalClasses :
              Tp(c) + Fn(c) = Cardinality(GtOfClass(EvaluatedImages, c))
    /\ pc = "done" =>
          /\ EvaluatedImages = DOMAIN ground_truths
          /\ \A c \in CanonicalClasses :
                /\ Tp(c) + Fn(c) = Cardinality(GtOfClass(DOMAIN ground_truths, c))
                /\ c \in DOMAIN results =>
                      results[c].tp + results[c].fn
                          = Cardinality(GtOfClass(DOMAIN ground_truths, c))

\* C1 witness: the evaluation is over, one class has a matched object and a
\* missed one, and one of its objects lies in an image without prediction record.
C1_Witness ==
    /\ pc = "done"
    /\ \E c \in CanonicalClasses :
          /\ Tp(c) > 0
          /\ Fn(c) > 0
          /\ \E i \in DOMAIN ground_truths \ DOMAIN predictions : GtOfClass({i}, c) # {}

\* C2: conservation of predictions.  After every image, tp + fp of every
\* canonical class is the number of resolved predictions of that class in the
\* images evaluated; while a class is matched, every prediction gone through
\* has added exactly one to tp or to fp of that class, and none was taken away.
C2_PredConservation ==
    /\ pc \in {"eval_image", "done"} =>
          \A c \in CanonicalClasses :
              Tp(c) + Fp(c) = Cardinality(ResolvedOfClass(EvaluatedImages, c))
    /\ pc = "match" =>
          /\ (Tp(class_name) - Tp0(class_name)) + (Fp(class_name) - Fp0(class_name))
                = pred_idx - 1
          /\ Tp(class_name) >= Tp0(class_name)
          /\ Fp(class_name) >= Fp0(class_name)
          /\ \A c \in CanonicalClasses \ {class_name} :
                Tp(c) = Tp0(c) /\ Fp(c) = Fp0(c)

\* C2 witness: the evaluation is over, a class has a true positive, and the
\* record of an evaluated image also holds a detection that is not resolved.
C2_Witness ==
    /\ pc = "done"
    /\ \E c \in CanonicalClasses : Tp(c) > 0
    /\ \E i \in DOMAIN predictions :
          Len(predictions[i].detections)
              > Cardinality(UNION {ResolvedOfClass({i}, c) : c \in CanonicalClasses})

\* C3: a detection whose label is "crack" or is not in the model-label
\* vocabulary contributes nothing: it increments no tp, fp or fn and makes no
\* entry in the class statistics or in the report, so that the only entries
\* there are those of the canonical classes.
C3_DroppedLabelsCountNothing ==
    /\ DOMAIN class_stats \subseteq CanonicalClasses
    /\ pc = "done" => DOMAIN results \subseteq CanonicalClasses \cup {"macro_average"}

\* The positions, in the record of image i, of the resolved predictions of class c.
ResolvedPositions(i, c) == {pos[2] : pos \in ResolvedOfClass({i}, c)}

\* The j-th smallest element of a set of numbers.
NthSmallest(S, j) == CHOOSE k \in S : Cardinality({x \in S : x < k}) = j - 1

\* The unclaimed ground-truth indices of the class being matched, the IoU of
\* box p with each, and the box the rule selects: maximum IoU, earliest index.
Unclaimed == {i \in 0..(Len(GtBoxes) - 1) : i \notin matched_gt}
IouWith(p, i) == calculate_iou(p, GtBoxes[i + 1])
Selected(p) ==
    CHOOSE i \in Unclaimed :
        \A k \in Unclaimed :
            /\ FracGe(IouWith(p, i), IouWith(p, k))
            /\ FracEq(IouWith(p, k), IouWith(p, i)) => i <= k

\* One matching step does what the rule says for the prediction it stands at.
C4_Step ==
    (pc = "match" /\ pred_idx <= Len(PredBoxes)) =>
        LET p == PredBoxes[pred_idx]
            hit == Unclaimed # {} /\ FracGe(IouWith(p, Selected(p)), IOU_THRESHOLD)
            after == StatsOf(class_stats', class_name)
        IN  /\ pred_idx' = pred_idx + 1
            /\ class_name' = class_name
            /\ after.fn = Fn(class_name)
            /\ IF hit
               THEN /\ after.tp = Tp(class_name) + 1
                    /\ after.fp = Fp(class_name)
                    /\ matched_gt' = matched_gt \cup {Selected(p)}
               ELSE /\ after.tp = Tp(class_name)
                    /\ after.fp = Fp(class_name) + 1
                    /\ matched_gt' = matched_gt

\* The predictions of a canonical class stand in pred_boxes in the order of the
\* source record.
C4_SourceOrder ==
    (pc = "match" /\ class_name \in CanonicalClasses) =>
        /\ Len(PredBoxes) = Cardinality(ResolvedPositions(CurImage, class_name))
        /\ \A j \in 1..Len(PredBoxes) :
              PredBoxes[j] =
                  convert_relative_to_absolute(
                      predictions[CurImage].detections[
                          NthSmallest(ResolvedPositions(CurImage, class_name), j)].box_2d,
                      ground_truths[CurImage].width, ground_truths[CurImage].height)

\* C4: the matching step rule.  Within one (image, class) pair the predictions
\* are gone through in the order of the source record; each is compared with the
\* unclaimed ground-truth boxes of the class only, the unclaimed box of maximum
\* IoU is selected (the earliest index on a tie), and the prediction is a true
\* positive that claims this box if and only if that IoU is >= 0.5; otherwise
\* it is a false positive and the claimed set stays as it is.
C4_MatchStepRule == []C4_SourceOrder /\ [][C4_Step]_vars

\* C4 witness: a prediction has met two unclaimed boxes of its class with the
\* same IoU, exactly the threshold, and has claimed the earlier one.
C4_Witness ==
    /\ pc = "match"
    /\ last.op = "match"
    /\ Len(GtBoxes) = 2
    /\ FracEq(calculate_iou(last.pred_box, GtBoxes[1]), IOU_THRESHOLD)
    /\ FracEq(calculate_iou(last.pred_box, GtBoxes[2]), IOU_THRESHOLD)
    /\ last.best_gt_idx = 0
    /\ matched_gt = {0}
    /\ Tp(class_name) = Tp0(class_name) + 1

\* The true positives, false positives and false negatives counted so far for
\* the (image, class) pair being matched, or just finished.
PairTp == Tp(class_name) - Tp0(class_name)
PairFp == Fp(class_name) - Fp0(class_name)
PairFn == Fn(class_name) - Fn0(class_name)
InPair == pc = "match" \/ last.op = "end_class"

C5_Distinct ==
    InPair =>
        /\ matched_gt \subseteq 0..(Len(GtBoxes) - 1)
        /\ PairTp = Cardinality(matched_gt)
        /\ PairTp <= Min(Len(GtBoxes), Len(PredBoxes))

C5_Grows ==
    (pc = "match" /\ pc' = "match") =>
        /\ matched_gt \subseteq matched_gt'
        /\ StatsOf(class_stats', class_name).tp = Tp(class_name) + 1
              => Cardinality(matched_gt') = Cardinality(matched_gt) + 1
        /\ StatsOf(class_stats', class_name).tp = Tp(class_name)
              => matched_gt' = matched_gt

\* C5: a ground-truth box is claimed by at most one prediction.  While an
\* (image, class) pair is matched the claimed set only grows, every true
\* positive adds an index that was not in it, and the true positives counted
\* for the pair never exceed min(ground-truth boxes, predictions) of the pair.
C5_ClaimedAtMostOnce == []C5_Distinct /\ [][C5_Grows]_vars

\* C5 witness: two predictions of a class both overlap its only ground-truth
\* box at or above the threshold; the first has claimed it, the second has not.
C5_Witness ==
    /\ pc = "match"
    /\ Len(GtBoxes) = 1
    /\ Len(PredBoxes) = 2
    /\ pred_idx = 3
    /\ \A j \in 1..2 : FracGe(calculate_iou(PredBoxes[j], GtBoxes[1]), IOU_THRESHOLD)
    /\ matched_gt = {0}
    /\ PairTp = 1
    /\ PairFp = 1

\* The boxes of the ground-truth objects of class c annotated in image i.
GtBoxSet(i, c) == {ground_truths[i].objects[pos[2]].bbox : pos \in GtOfClass({i}, c)}

\* Some box of the set overlaps box p at or above the threshold.
Overlaps(p, boxes) == \E b \in boxes : FracGe(calculate_iou(p, b), IOU_THRESHOLD)

C6_Step ==
    (pc = "match" /\ pred_idx <= Len(PredBoxes)) =>
        LET p == PredBoxes[pred_idx]
            after == StatsOf(class_stats', class_name)
        IN  /\ after.tp = Tp(class_name) + 1
                  => Overlaps(p, GtBoxSet(CurImage, class_name))
            /\ GtBoxSet(CurImage, class_name) = {}
                  => after.tp = Tp(class_name) /\ after.fp = Fp(class_name) + 1
            /\ \A c \in (DOMAIN class_stats \cup DOMAIN class_stats') \ {class_name} :
                  StatsOf(class_stats', c) = StatsOf(class_stats, c)

\* C6: matching never crosses class or image boundaries.  A prediction of class
\* c in image i becomes a true positive only if a ground-truth box of class c in
\* image i overlaps it at or above the threshold, and it changes the counts of
\* class c only; with no ground truth of class c in image i it is a false
\* positive of class c, whatever boxes of other classes or images it overlaps.
C6_NoCrossing == [][C6_Step]_vars

\* C6 witness: a prediction has been counted as false positive of its class in
\* an image without ground truth of that class, although it overlaps a box of
\* another class in its image and a box of its own class in another image.
C6_Witness ==
    /\ pc = "match"
    /\ last.op = "match"
    /\ GtBoxSet(CurImage, class_name) = {}
    /\ PairTp = 0
    /\ PairFp = 1
    /\ \E c \in CanonicalClasses \ {class_name} :
          Overlaps(last.pred_box, GtBoxSet(CurImage, c))
    /\ \E i \in DOMAIN ground_truths \ {CurImage} :
          Overlaps(last.pred_box, GtBoxSet(i, class_name))

C7_Step ==
    (/\ pc = "eval_image"
     /\ img_idx <= Len(gt_order)
     /\ gt_order[img_idx] \notin DOMAIN predictions) =>
        /\ \A c \in CanonicalClasses :
              /\ StatsOf(class_stats', c).fn
                    = Fn(c) + Cardinality(GtOfClass({gt_order[img_idx]}, c))
              /\ StatsOf(class_stats', c).tp = Tp(c)
              /\ StatsOf(class_stats', c).fp = Fp(c)
        /\ DOMAIN class_stats' =
              DOMAIN class_stats
                  \cup {c \in CanonicalClasses : GtOfClass({gt_order[img_idx]}, c) # {}}
        /\ \A c \in DOMAIN class_stats \ CanonicalClasses : class_stats'[c] = class_stats[c]
        /\ pc' = "eval_image"
        /\ img_idx' = img_idx + 1

C7_Dropped ==
    (pc = "load_pred" /\ last'.op = "line" /\ last'.effect = "dropped") =>
        predictions' = predictions

\* C7: an image of the corpus without entry in the predictions map adds exactly
\* one fn per mapped ground-truth object to the object's class, changes no tp
\* and no fp, and is not matched; a record that is dropped (error indicator,
\* no response body, unparsable line or payload) makes no entry in the map.
C7_NoPredictionAllFn == [][C7_Step /\ C7_Dropped]_vars

\* C7 witness: an image without entry in the predictions map has just been
\* evaluated, and its two objects of different classes are one fn each.
C7_Witness ==
    /\ last.op = "no_prediction"
    /\ last.image_id \notin DOMAIN predictions
    /\ \E c1, c2 \in CanonicalClasses :
          /\ c1 # c2
          /\ GtOfClass({last.image_id}, c1) # {}
          /\ GtOfClass({last.image_id}, c2) # {}
          /\ Fn(c1) = 1
          /\ Fn(c2) = 1
    /\ \A c \in DOMAIN class_stats : class_stats[c].tp = 0 /\ class_stats[c].fp = 0

\* The pairs (prediction, ground-truth box) of the class being matched whose IoU
\* is at or above the threshold, and the size of a maximum matching among them.
MatchEdges ==
    {e \in (1..Len(PredBoxes)) \X (1..Len(GtBoxes)) :
        FracGe(calculate_iou(PredBoxes[e[1]], GtBoxes[e[2]]), IOU_THRESHOLD)}
IsMatching(M) ==
    \A e1, e2 \in M : e1 # e2 => e1[1] # e2[1] /\ e1[2] # e2[2]
MaxMatchingSize ==
    LET sizes == {Cardinality(M) : M \in {X \in SUBSET MatchEdges : IsMatching(X)}}
    IN  CHOOSE n \in sizes : \A m \in sizes : m <= n

C8_Bound ==
    /\ InPair => PairTp <= MaxMatchingSize
    /\ last.op = "end_class" => PairFn = Len(GtBoxes) - PairTp

C8_NoRelease ==
    (pc = "match" /\ pc' = "match") =>
        /\ matched_gt \subseteq matched_gt'
        /\ Cardinality({i \in Unclaimed :
                           FracGe(IouWith(PredBoxes[pred_idx], i), IOU_THRESHOLD)}) >= 2
              => /\ Cardinality(matched_gt') = Cardinality(matched_gt) + 1
                 /\ StatsOf(class_stats', class_name).tp = Tp(class_name) + 1

\* C8: greedy matching without re-matching.  A claimed box is never released
\* or handed to a later prediction; a prediction that overlaps two unclaimed
\* boxes of its class above the threshold claims exactly one, the other stays
\* open and is a false negative unless a later prediction claims it; the true
\* positives of an (image, class) pair never exceed the size of a maximum
\* matching over the pairs with IoU >= threshold.
C8_GreedyNoRematch == []C8_Bound /\ [][C8_NoRelease]_vars

\* C8 witness: a pair is finished with fewer true positives than a maximum
\* matching has, and a ground-truth box left as false negative.
C8_Witness ==
    /\ last.op = "end_class"
    /\ PairTp < MaxMatchingSize
    /\ PairFn >= 1
    /\ PairFp >= 1

\* No object of image i survives the class mapping.
NoSurvivor(i) == \A c \in CanonicalClasses : GtOfClass({i}, c) = {}

\* C9 as stated: an image whose annotation has no object surviving the class
\* mapping is excluded from the evaluation corpus, and predictions logged for
\* it contribute no tp and no fp.
C9_UnmappedImageExcluded ==
    (pc = "match" /\ NoSurvivor(CurImage)) => PairTp = 0 /\ PairFp = 0

C9_Corpus ==
    /\ \A i \in DOMAIN ground_truths : ground_truths[i].objects # <<>>
    /\ DOMAIN predictions \subseteq DOMAIN ground_truths
    /\ (InPair /\ NoSurvivor(IF pc = "match" THEN CurImage ELSE last.image_id)) =>
          /\ GtBoxes = <<>>
          /\ PairTp = 0
          /\ PairFn = 0
          /\ pc = "match" => PairFp = pred_idx - 1

C9_Step ==
    (/\ pc \in {"eval_image", "eval_class", "match"}
     /\ img_idx <= Len(gt_order)
     /\ NoSurvivor(gt_order[img_idx])) =>
        \A c \in DOMAIN class_stats' :
            /\ StatsOf(class_stats', c).tp = Tp(c)
            /\ StatsOf(class_stats', c).fn = Fn(c)
            /\ StatsOf(class_stats', c).fp \in {Fp(c), Fp(c) + 1}

\* C9, amended: an image whose annotation has no objects at all (or does not
\* parse) is excluded from the evaluation corpus, generates no fn, and the
\* predictions logged for it are discarded.  An image that has only objects of
\* codes outside the ground-truth vocabulary stays in the corpus: it generates
\* no fn and no tp, and every detection of its record that is kept is counted
\* as one fp.
C9_OnlyEmptyImagesExcluded == []C9_Corpus /\ [][C9_Step]_vars

\* C9 witness: in an image whose objects are all of an unmapped code, a
\* prediction of a canonical class has been counted as false positive.
C9_Witness ==
    /\ pc = "match"
    /\ last.op = "match"
    /\ NoSurvivor(CurImage)
    /\ class_name \in CanonicalClasses
    /\ PairFp = 1
    /\ Fp(class_name) = 1

C10_OnlyKnownImages ==
    /\ DOMAIN predictions \subseteq DOMAIN ground_truths
    /\ last.op \in {"no_prediction", "grouped", "match", "end_class"}
          => last.image_id \in DOMAIN ground_truths
    /\ pc = "match" => CurImage \in DOMAIN ground_truths

C10_Step ==
    (pc = "load_pred" /\ last'.op = "line" /\ last'.effect = "unknown_id") =>
        /\ predictions' = predictions
        /\ class_stats' = class_stats

\* C10: predictions for an image id without ground-truth entry are discarded.
\* Reading such a record changes neither the predictions map nor any count,
\* the map never holds an image that ground_truths lacks, and only images of
\* ground_truths are ever evaluated.
C10_UnknownImageDiscarded == []C10_OnlyKnownImages /\ [][C10_Step]_vars

\* C10 witness: a parsed record of an image id without ground truth has just
\* been read, while the corpus and the predictions map hold another image.
C10_Witness ==
    /\ pc = "load_pred"
    /\ last.op = "line"
    /\ last.effect = "unknown_id"
    /\ DOMAIN predictions # {}
    /\ DOMAIN predictions \subseteq DOMAIN ground_truths

\* An entry that is an object with a box_2d of four numbers.
WellFormed(pred) ==
    pred.entry = "object" /\ pred.box_type = "numbers" /\ Len(pred.box_2d) = 4

RECURSIVE WellFormedOnly(_)
WellFormedOnly(pred_detections) ==
    IF pred_detections = <<>> THEN <<>>
    ELSE (IF WellFormed(Head(pred_detections)) THEN <<Head(pred_detections)>> ELSE <<>>)
         \o WellFormedOnly(Tail(pred_detections))

\* C11: a malformed detection entry (box missing, box of wrong arity, box that
\* is not a sequence, non-numeric box elements, entry that is not an object)
\* is skipped: the run never ends in the grouping loop, and the detections of
\* an image are grouped as if the malformed entries were absent.
C11_MalformedEntrySkipped ==
    /\ pc # "raised"
    /\ last.op = "grouped" =>
          pred_by_class =
              GroupPred(WellFormedOnly(predictions[last.image_id].detections),
                        ground_truths[last.image_id].width,
                        ground_truths[last.image_id].height)

\* A float of [0, 1], obtained without dividing by zero.
InUnitInterval(x) == x[2] > 0 /\ 0 <= x[1] /\ x[1] <= x[2]

IsZero(x) == x[2] > 0 /\ x[1] = 0

\* C12: for every class of the report, precision, recall and f1 lie in [0, 1],
\* and each is exactly 0 when its denominator (tp+fp, tp+fn, precision+recall)
\* is 0; no quotient is taken over 0.
C12_MetricsInUnitInterval ==
    (pc = "unit_returned" /\ call.fn = "report") =>
        \A c \in DOMAIN call.class_stats :
            LET st == call.class_stats[c]
                m == ret.results[c]
            IN  /\ InUnitInterval(m.precision)
                /\ InUnitInterval(m.recall)
                /\ InUnitInterval(m.f1)
                /\ st.tp + st.fp = 0 => IsZero(m.precision)
                /\ st.tp + st.fn = 0 => IsZero(m.recall)
                /\ IsZero(FracAdd(m.precision, m.recall)) => IsZero(m.f1)
                /\ st.tp + st.fp > 0 => FracEq(m.precision, <<st.tp, st.tp + st.fp>>)
                /\ st.tp + st.fn > 0 => FracEq(m.recall, <<st.tp, st.tp + st.fn>>)

\* C12 witness: the report of a class with tp+fp = 0 and of a class whose three
\* denominators are positive and whose precision lies strictly between 0 and 1.
C12_Witness ==
    /\ pc = "unit_returned"
    /\ call.fn = "report"
    /\ \E c, d \in DOMAIN call.class_stats :
          /\ call.class_stats[c].tp + call.class_stats[c].fp = 0
          /\ IsZero(ret.results[c].precision)
          /\ IsZero(ret.results[c].f1)
          /\ call.class_stats[d].tp > 0
          /\ call.class_stats[d].fp > 0
          /\ call.class_stats[d].fn > 0
          /\ ~IsZero(ret.results[d].f1)
          /\ ret.results[d].precision[1] < ret.results[d].precision[2]

\* The classes with a nonzero count, among all names a count can be kept under.
CountedClasses ==
    {c \in DOMAIN class_stats \cup CanonicalClasses : Tp(c) + Fp(c) + Fn(c) > 0}

\* The sum of the metric of the report over a set of classes.
RECURSIVE MetricSum(_, _)
MetricSum(K, field) ==
    IF K = {} THEN <<0, 1>>
    ELSE LET c == CHOOSE x \in K : TRUE
         IN  FracAdd(ClassMetrics(StatsOf(class_stats, c))[field],
                     MetricSum(K \ {c}, field))

\* m is the unweighted mean of the metric over the classes K.
IsMeanOver(m, K, field) ==
    /\ m[2] > 0
    /\ FracEq(<< m[1] * Cardinality(K), m[2] >>, MetricSum(K, field))

\* C13: no class with all-zero counts ever has an entry in class_stats, and the
\* macro average of the report is the unweighted mean of precision, recall and
\* f1 over exactly the classes with tp+fp+fn > 0, each of which has its entry.
C13_MacroOverCountedClasses ==
    /\ DOMAIN class_stats = CountedClasses
    /\ (pc = "done" /\ CountedClasses # {}) =>
          /\ DOMAIN results = CountedClasses \cup {"macro_average"}
          /\ \A field \in {"precision", "recall", "f1"} :
                IsMeanOver(results["macro_average"][field], CountedClasses, field)
    /\ (pc = "done" /\ CountedClasses = {}) => DOMAIN results = {}

\* C13 witness: a report over two classes of different precision, while other
\* canonical classes have no count and no entry.
C13_Witness ==
    /\ pc = "done"
    /\ Cardinality(CountedClasses) = 2
    /\ CanonicalClasses \ CountedClasses # {}
    /\ \E c, d \in CountedClasses :
          /\ ~FracEq(results[c].precision, results[d].precision)
          /\ ~FracEq(results["macro_average"].precision, results[c].precision)
          /\ ~FracEq(results["macro_average"].precision, results[d].precision)

ClassFields == {"tp", "fp", "fn", "precision", "recall", "f1"}
MetricFields == {"precision", "recall", "f1"}

IouReturned == pc = "unit_returned" /\ call.fn = "calculate_iou"

\* xmin <= xmax and ymin <= ymax; of area 0; of positive area.
Proper(b) == b[1] <= b[3] /\ b[2] <= b[4]
ZeroArea(b) == b[1] = b[3] \/ b[2] = b[4]
NonDegenerate(b) == b[1] < b[3] /\ b[2] < b[4]

\* Two proper boxes that share no area: apart, or touching on a boundary.
NoCommonArea(b1, b2) ==
    \/ b1[3] <= b2[1]
    \/ b2[3] <= b1[1]
    \/ b1[4] <= b2[2]
    \/ b2[4] <= b1[2]

\* C15: calculate_iou is symmetric, iou(b1, b2) = iou(b2, b1), for all pairs of
\* integer boxes, those of no area included.
C15_IouSymmetric ==
    IouReturned => ret.iou = ret.swapped

\* C15 witness: calculate_iou has returned for two boxes of different positive
\* areas that overlap in part, with a value strictly between 0 and 1.
C15_Witness ==
    /\ IouReturned
    /\ NonDegenerate(call.box1)
    /\ NonDegenerate(call.box2)
    /\ ret.iou[1] > 0
    /\ ret.iou[1] < ret.iou[2]
    /\ (call.box1[3] - call.box1[1]) * (call.box1[4] - call.box1[2])
          # (call.box2[3] - call.box2[1]) * (call.box2[4] - call.box2[2])

\* C16: calculate_iou returns exactly 0 for disjoint boxes, for boxes that only
\* touch on a boundary, and for any box paired with a box of no area, two
\* identical boxes of no area included; it never divides by a union area of 0.
C16_IouZero ==
    IouReturned =>
        /\ ret.iou[2] > 0
        /\ (Proper(call.box1) /\ Proper(call.box2) /\ NoCommonArea(call.box1, call.box2))
              => IsZero(ret.iou)
        /\ (ZeroArea(call.box1) \/ ZeroArea(call.box2)) => IsZero(ret.iou)

\* C16 witness: calculate_iou has returned 0 for two identical boxes of no area.
C16_Witness ==
    /\ IouReturned
    /\ call.box1 = call.box2
    /\ Proper(call.box1)
    /\ ZeroArea(call.box1)
    /\ IsZero(ret.iou)

\* C17: calculate_iou(b, b) is 1 for every box b with xmin < xmax and
\* ymin < ymax, so a prediction identical to the unclaimed ground-truth box of
\* its class claims it and is a true positive.
C17_IouOfBoxWithItself ==
    (IouReturned /\ call.box1 = call.box2 /\ NonDegenerate(call.box1)) =>
        /\ FracEq(ret.iou, <<1, 1>>)
        /\ FracEq(ret.best.best_iou, <<1, 1>>)
        /\ ret.best.best_gt_idx = 0
        /\ IsMatch(ret.best)

\* C17 witness: calculate_iou has returned 1 for a box with itself.
C17_Witness ==
    /\ IouReturned
    /\ call.box1 = call.box2
    /\ NonDegenerate(call.box1)
    /\ ret.iou[1] = ret.iou[2]
    /\ IsMatch(ret.best)

\* C18: if the raw data directory is missing, or no result file is found (the
\* configured one does not exist), the run ends with a non-zero outcome instead
\* of completing normally.
C18_MissingInputIsFatal ==
    (Terminated /\ (~files.raw_dir \/ ~files.result_file)) =>
        /\ ExitStatus # 0
        /\ pc # "done"

\* The counts of the greedy matching of the predicted boxes, from position j
\* on, against the ground-truth boxes of one image and one class.
RECURSIVE MatchFrom(_, _, _, _, _)
MatchFrom(pred_boxes, gt_boxes, matched, j, counts) ==
    IF j > Len(pred_boxes)
    THEN [counts EXCEPT !.fn = Len(gt_boxes) - Cardinality(matched)]
    ELSE LET best == BestMatch(pred_boxes[j], gt_boxes, matched)
         IN  IF IsMatch(best)
             THEN MatchFrom(pred_boxes, gt_boxes, matched \cup {best.best_gt_idx}, j + 1,
                            [counts EXCEPT !.tp = @ + 1])
             ELSE MatchFrom(pred_boxes, gt_boxes, matched, j + 1,
                            [counts EXCEPT !.fp = @ + 1])

\* The counts image i gives to class c, from the inputs alone.
CountsOfImage(i, c) ==
    LET gt_boxes == BoxesOfClass(ground_truths[i].objects, c)
    IN  IF HasNoPrediction(predictions, i)
        THEN [tp |-> 0, fp |-> 0, fn |-> Len(gt_boxes)]
        ELSE MatchFrom(PredBoxesOfClass(predictions[i].detections, c,
                                        ground_truths[i].width, ground_truths[i].height),
                       gt_boxes, {}, 1, NewStats)

\* Their sum over a set of images, which has no order.
RECURSIVE CountsOfImages(_, _)
CountsOfImages(imgs, c) ==
    IF imgs = {} THEN NewStats
    ELSE LET i == CHOOSE x \in imgs : TRUE
             one == CountsOfImage(i, c)
             rest == CountsOfImages(imgs \ {i}, c)
         IN  [tp |-> one.tp + rest.tp, fp |-> one.fp + rest.fp, fn |-> one.fn + rest.fn]

\* The names a count can be kept under: the canonical classes, and the keys
\* the detections of the predictions map are filed under.
CountableClasses ==
    (CanonicalClasses \cup DOMAIN class_stats
        \cup UNION { {PredClassOf(predictions[i].detections[j]) :
                          j \in DOMAIN predictions[i].detections} :
                     i \in DOMAIN predictions }) \ {None}

\* C19: the final counts of every class are a function of ground_truths and
\* predictions (with the order of the detections inside each record): they are
\* the sum, over the set of images, of the counts each image gives to the
\* class, whatever the order the images were visited in and the order the
\* classes of an image were iterated in.
C19_CountsIndependentOfOrder ==
    pc = "done" =>
        \A c \in CountableClasses :
            StatsOf(class_stats, c) = CountsOfImages(DOMAIN ground_truths, c)

\* C19 witness: a run has ended that visited img_b before img_a and met an
\* image with two classes to iterate, and two classes have counts.
C19_Witness ==
    /\ pc = "done"
    /\ gt_order = <<"img_b", "img_a">>
    /\ Cardinality(DOMAIN class_stats) >= 2
    /\ \E c \in DOMAIN class_stats : class_stats[c].tp > 0
    /\ \E i \in DOMAIN predictions :
          /\ ~HasNoPrediction(predictions, i)
          /\ Cardinality(DOMAIN GroupGt(ground_truths[i].objects)
                \cup DOMAIN GroupPred(predictions[i].detections,
                                      ground_truths[i].width,
                                      ground_truths[i].height)) >= 2

\* One line of the result file is read.
C20_Step ==
    (pc = "load_pred" /\ pc' = "load_pred") =>
        IF last'.effect = "stored"
        THEN \E id \in DOMAIN ground_truths :
                predictions' =
                    Put(predictions, id,
                        [width |-> ground_truths[id].width,
                         height |-> ground_truths[id].height,
                         detections |-> last'.detections])
        ELSE predictions' = predictions

\* Once the last line is read the predictions map is what is scored.
C20_Scored == pc' # "load_pred" => predictions' = predictions

\* C20: of several records with the same image id only the last one that
\* parses is scored: a stored record replaces the entry of its image by its own
\* detections, without adding them to those held before, and a record that is
\* dropped (error indicator, missing body, unparsable payload) leaves the entry
\* held for its image as it is.
C20_LastValidRecordWins == [][C20_Step /\ C20_Scored]_vars

\* C20 witness: a record with detections has been stored for an image that had
\* an entry before, and the entry now holds the detections of that record.
C20_Witness ==
    /\ pc = "load_pred"
    /\ last.op = "line"
    /\ last.effect = "stored"
    /\ last.held
    /\ last.detections # <<>>
    /\ \E id \in DOMAIN predictions : predictions[id].detections = last.detections

\* ------------------------------------------------------------------ C21
\* The run found a job_id and an output_filename in the state file.
Resumed == {"job_id", "output_filename"} \subseteq DOMAIN state

InLoop == pc \in {"poll", "backoff"}

\* The state file holds the job id and the output path of the run.
SavedThisJob ==
    /\ job_state_file.exists
    /\ job_state_file.valid
    /\ {"job_id", "output_filename"} \subseteq DOMAIN job_state_file.dict
    /\ job_state_file.dict.job_id = job_id
    /\ job_state_file.dict.output_filename = raw_output_file_path

\* A step of a resumed run uploads nothing, creates no job, lets retrieve be
\* called with the cached job id only, and writes no result file but the one
\* of the cached name.
C21_ResumedStep ==
    Resumed =>
        /\ remote'.files = remote.files
        /\ DOMAIN remote'.jobs = DOMAIN remote.jobs
        /\ run'.polls # run.polls => job_id = state.job_id
        /\ \A f \in DOMAIN results_dir' :
              f = state.output_filename
              \/ (f \in DOMAIN results_dir /\ results_dir'[f] = results_dir[f])

\* C21: batch-job resume.  A run that found a job_id and an output_filename in
\* the state file uploads no file and creates no job, polls the cached job id
\* and writes the result it downloads to the cached output filename; a run
\* creates at most one job; and a run that created a job is in the polling loop
\* only with that job's id and its output filename saved in the state file.
C21_ResumeCreatesNothing ==
    /\ [](Resumed => /\ run.uploaded = {}
                     /\ run.created = {}
                     /\ pc \notin {"upload", "create", "save"}
                     /\ job_id = state.job_id
                     /\ raw_output_file_path \in {None, state.output_filename})
    /\ [][C21_ResumedStep]_vars
    /\ [](Cardinality(run.created) <= 1 /\ Cardinality(run.uploaded) <= 1)
    /\ []((InLoop /\ run.created # {}) => (job_id \in run.created /\ SavedThisJob))

\* C21 witness: the second run has resumed the job that the first run created,
\* polled it and written its output to the file name that the first run chose.
C21_Witness ==
    /\ run.n = 2
    /\ Resumed
    /\ state.job_id \notin {"job_0"}
    /\ run.ended = "finished"
    /\ run.polls > 0
    /\ state.output_filename \in DOMAIN results_dir
    /\ results_dir[state.output_filename] =
           [content |-> OutputOf(state.job_id), complete |-> TRUE]
    /\ Cardinality(DOMAIN remote.jobs \ {"job_0"}) = 1

\* ------------------------------------------------------------------ C22
\* The step deletes the state file.
Deletes == job_state_file.exists /\ ~job_state_file'.exists

\* The result of the run's job is written, whole, to the run's output path.
ResultWritten ==
    /\ raw_output_file_path \in DOMAIN results_dir
    /\ results_dir[raw_output_file_path] =
           [content |-> OutputOf(job_id), complete |-> TRUE]

\* The step ends the run by Ctrl+C in the polling loop, or by a failed download.
EndsByInterruptOrDownloadFailure ==
    /\ pc # "exited"
    /\ pc' = "exited"
    /\ \/ InLoop /\ sys_exit' \in {"0", "KeyboardInterrupt"}
       \/ pc = "download" /\ sys_exit' = "1"

C22_Step ==
    /\ Deletes =>
          \/ pc = "poll" /\ job_status'.status \in {"failed", "cancelled"}
          \/ /\ pc = "job_start"
             /\ "job_id" \in DOMAIN state'
             /\ "output_filename" \notin DOMAIN state'
          \/ pc = "cleanup" /\ ResultWritten
    /\ EndsByInterruptOrDownloadFailure =>
          /\ job_state_file' = job_state_file
          /\ SavedThisJob

\* C22: life of the state file.  A step deletes the state file only if its
\* poll observes the job failed or cancelled, if the state it loaded has a
\* job_id and no output_filename, or if the result file has been written; a
\* step that ends the run by an interrupt in the polling loop or by a failed
\* download leaves the state file as it was, holding the job of the run; and
\* the run after such a run has the same job and uploads and creates nothing.
C22_StateFileLifecycle ==
    /\ [][C22_Step]_vars
    /\ []((run.prev.ended \in {"interrupt", "download_failed"} /\ pc # "job_start") =>
             /\ job_id = run.prev.job_id
             /\ run.uploaded = {}
             /\ run.created = {}
             /\ pc \notin {"upload", "create", "save"})

\* C22 witness: the run before this one ended by a failed download with the
\* state file kept; this run has resumed the same job, downloaded its result
\* and deleted the state file.
C22_Witness ==
    /\ run.prev.ended = "download_failed"
    /\ run.ended = "finished"
    /\ job_id = run.prev.job_id
    /\ ResultWritten
    /\ ~job_state_file.exists
    /\ run.created = {}

\* ------------------------------------------------------------------ C23
\* The service reports the run's job completed, failed or cancelled (and will
\* do so for ever, NextStatuses of these being empty).
ReportsTheEnd ==
    /\ job_id \in DOMAIN remote.jobs
    /\ remote.jobs[job_id].status \in {"completed", "failed", "cancelled"}

C23_Step ==
    /\ results_dir' # results_dir =>
          /\ run.polls > 0
          /\ job_status.status = "completed"
    /\ (InLoop /\ ~InLoop') =>
          \/ /\ pc = "poll"
             /\ pc' = "download"
             /\ job_status' = remote.jobs[job_id]
             /\ job_status'.status = "completed"
          \/ /\ pc = "poll"
             /\ pc' = "exited"
             /\ sys_exit' = "1"
             /\ job_status' = remote.jobs[job_id]
             /\ job_status'.status \in {"failed", "cancelled"}
          \/ /\ pc' = "exited"
             /\ sys_exit' \in {"0", "KeyboardInterrupt"}
             /\ run'.ended = "interrupt"

\* C23: polling protocol.  A result file is written only after a poll of the
\* run has returned 'completed'; the loop is left only by a poll that returns
\* 'completed', by a poll that returns 'failed' or 'cancelled' (exit 1), or by
\* Ctrl+C; in the loop another pass is always possible, however many polls
\* have been made; and, the polling being fair, a run that is in the loop when
\* the service reports the job completed, failed or cancelled leaves the loop.
C23_PollingProtocol ==
    /\ [][C23_Step]_vars
    /\ [](InLoop => ENABLED (Poll \/ PollError \/ Retry))
    /\ ((InLoop /\ ReportsTheEnd) ~> ~InLoop)

\* C23 witness: a run polled MaxPolls times or more, a poll returned
\* 'completed', and the result was downloaded and written.
C23_Witness ==
    /\ run.polls = MaxPolls
    /\ job_status.status = "completed"
    /\ run.ended = "finished"
    /\ ResultWritten

====
